---- MODULE Spec2Model ----
(***************************************************************************)
(* Model of app.py, the BrandAI dashboard: a Streamlit script that is run  *)
(* top to bottom on every interaction.  One run passes the password gate,  *)
(* loads and enriches the dataset (brand extraction and explode), filters  *)
(* the scope, and computes the metrics of the four tabs.                   *)
(*                                                                         *)
(* Texts and brand names are tuples of one-character strings.  A ratio the *)
(* code computes in floating point is kept exact as a record [n, d] with   *)
(* d > 0; a division by zero is one of the values ZeroDivisionError        *)
(* (Python scalars), Inf or NaNFloat (pandas columns).                     *)
(***************************************************************************)
EXTENDS Integers, Sequences, FiniteSets, TLC

VARIABLES
    session_state,      \* st.session_state: a function on the keys that are set
    pc,                 \* position of the script run
    stop_reason,        \* which st.stop() ended the run ("" when none)
    cache,              \* @st.cache_data: <<>> or <<[df, df_exploded]>>
    df,                 \* base table (one row per response)
    df_exploded,        \* expanded table (one row per response and brand)
    selected_category,
    selected_country,
    scope_df,
    available_brands,   \* value_counts().head(50) of the scope
    ranking,            \* scope_df['mentioned_brands'].value_counts().index
    target_brand,
    insight,            \* the values tab_insight computes
    sov,                \* the values tab_sov computes
    semantic,           \* the values tab_semantic computes
    sources,            \* the values tab_sources computes
    ex                  \* extract_brands_nlp applied on its own: [lexicon, text, patterns, found, pc]

vars == <<session_state, pc, stop_reason, cache, df, df_exploded, selected_category,
          selected_country, scope_df, available_brands, ranking, target_brand, insight,
          sov, semantic, sources, ex>>

runVars == <<df, df_exploded, selected_category, selected_country, scope_df,
             available_brands, ranking, target_brand, insight, sov, semantic, sources>>

(***************************************************************************)
(* Bounds of the model.                                                    *)
(***************************************************************************)
MaxRows == 2        \* rows of the dataset file
MaxLen == 3         \* characters of a text given to extract_brands_nlp alone
MaxLexicon == 2     \* names of a lexicon given to extract_brands_nlp alone

(***************************************************************************)
(* Sequences.                                                              *)
(***************************************************************************)
Range(s) == {s[i] : i \in 1..Len(s)}

SeqsUpTo(S, n) == UNION {[1..k -> S] : k \in 0..n}

Count(s, v) == Cardinality({i \in 1..Len(s) : s[i] = v})

\* pandas unique(): the distinct values in order of first appearance
RECURSIVE Uniques(_)
Uniques(s) ==
    IF s = <<>> THEN <<>>
    ELSE LET u == Uniques(SubSeq(s, 1, Len(s) - 1))
             v == s[Len(s)]
         IN IF v \in Range(u) THEN u ELSE Append(u, v)

Perms(S) == {p \in [1..Cardinality(S) -> S] : \A i, j \in 1..Cardinality(S) : p[i] = p[j] => i = j}

\* DataFrame.head(n) / Index.head(n)
HeadN(s, n) == SubSeq(s, 1, IF Len(s) < n THEN Len(s) ELSE n)

(***************************************************************************)
(* Text.  str(text) of a missing response (NaN) is the text "nan".         *)
(***************************************************************************)
NaN == <<"NaN">>

str(text) == IF text = NaN THEN <<"n", "a", "n">> ELSE text

\* the case folding re.IGNORECASE applies to one character
Lower(c) ==
    CASE c = "A" -> "a"
      [] c = "B" -> "b"
      [] c = "C" -> "c"
      [] OTHER -> c

\* characters with a special meaning in a regular expression
MetaChars == {".", "\\"}

\* re.escape: a backslash before every special character
RECURSIVE re_escape(_)
re_escape(name) ==
    IF name = <<>> THEN <<>>
    ELSE (IF Head(name) \in MetaChars THEN <<"\\", Head(name)>> ELSE <<Head(name)>>)
         \o re_escape(Tail(name))

\* re.compile: the pattern as a sequence of items, each a literal character
\* or the wildcard "." (any character)
RECURSIVE re_compile(_)
re_compile(p) ==
    IF p = <<>> THEN <<>>
    ELSE IF Head(p) = "\\" /\ Len(p) >= 2
         THEN <<[lit |-> TRUE, ch |-> p[2]]>> \o re_compile(SubSeq(p, 3, Len(p)))
         ELSE <<[lit |-> Head(p) # ".", ch |-> Head(p)]>> \o re_compile(Tail(p))

\* one pattern item against one character, under re.IGNORECASE
ItemMatches(item, c) == (~item.lit) \/ Lower(item.ch) = Lower(c)

MatchesAt(pattern, text, off) ==
    /\ off + Len(pattern) <= Len(text)
    /\ \A k \in 1..Len(pattern) : ItemMatches(pattern[k], text[off + k])

\* pattern.search(text): a match at some offset
re_search(pattern, text) == \E off \in 0..Len(text) : MatchesAt(pattern, text, off)

\* brand_patterns = {brand: re.compile(re.escape(brand), re.IGNORECASE) ...}:
\* a dict keeps one entry per key, in order of first insertion
\* (the same without re.escape)
CompileBrandUnescaped(brand) == re_compile(brand)

CompileBrand(brand) == re_compile(re_escape(brand))

RECURSIVE brand_patterns(_)
brand_patterns(lexicon) ==
    IF lexicon = <<>> THEN <<>>
    ELSE LET d == brand_patterns(SubSeq(lexicon, 1, Len(lexicon) - 1))
             b == lexicon[Len(lexicon)]
         IN IF \E i \in 1..Len(d) : d[i].brand = b
            THEN [i \in 1..Len(d) |->
                     IF d[i].brand = b THEN [brand |-> b, pattern |-> CompileBrand(b)] ELSE d[i]]
            ELSE Append(d, [brand |-> b, pattern |-> CompileBrand(b)])

\* extract_brands_nlp: the loop over brand_patterns.items()
RECURSIVE ExtractLoop(_, _)
ExtractLoop(patterns, text_str) ==
    IF patterns = <<>> THEN <<>>
    ELSE (IF re_search(Head(patterns).pattern, text_str) THEN <<Head(patterns).brand>> ELSE <<>>)
         \o ExtractLoop(Tail(patterns), text_str)

extract_brands_nlp(patterns, text) == ExtractLoop(patterns, str(text))

\* the lexicon of the dashboard, reduced to three names: one is contained
\* in another, and lexicon order differs from alphabetical order
known_brands == << <<"A", "b">>, <<"C">>, <<"B">> >>

\* line 86, built once per load
known_patterns == brand_patterns(known_brands)

(***************************************************************************)
(* The dataset file.  A row of ultimate_ai_dataset_contextual.zip has the  *)
(* columns date, category, country, AI platform, criteria, prompt and      *)
(* response.  The rows the model reads are drawn from FileRows: category   *)
(* and country come from Markets, the other columns from Answers, which    *)
(* keeps the row space small (platform, date and criteria vary together).  *)
(* The responses mention, in this order: no brand; C and B; C; Ab and B.   *)
(***************************************************************************)
Markets == << [category |-> "Gardening", country |-> "US"],
              [category |-> "Shampoo", country |-> "IN"],
              [category |-> "Shampoo", country |-> "US"] >>
Answers ==
    << [platform |-> "ChatGPT", date |-> 1, criteria |-> "Price", response |-> <<"a">>],
       [platform |-> "ChatGPT", date |-> 1, criteria |-> "Price", response |-> <<"B", "c">>],
       [platform |-> "Gemini", date |-> 2, criteria |-> "Quality", response |-> <<"c">>],
       [platform |-> "Gemini", date |-> 2, criteria |-> "Quality", response |-> <<"a", "b">>] >>

FileRow(m, r) ==
    [category |-> Markets[m].category, country |-> Markets[m].country,
     platform |-> Answers[r].platform, date |-> Answers[r].date,
     criteria |-> Answers[r].criteria, response |-> Answers[r].response,
     key |-> m * Len(Answers) + r]

FileRows == {FileRow(m, r) : m \in 1..Len(Markets), r \in 1..Len(Answers)}

\* the files the loader may find: unreadable (missing, or a date that does
\* not parse), or up to MaxRows rows (listed in key order)
Datasets ==
    {d \in SeqsUpTo(FileRows, MaxRows) : \A i \in 1..(Len(d) - 1) : d[i].key <= d[i + 1].key}

Files == {[ok |-> FALSE, rows |-> <<>>]} \cup {[ok |-> TRUE, rows |-> d] : d \in Datasets}

\* source_db, each list cut to its first two sources
source_db ==
    [Shampoo |-> <<"Allure Magazine", "Reddit r/HaircareScience">>,
     TVs |-> <<"RTings.com", "The Verge">>]

\* source_db.get(row['category'], ["General Web Search"])
cat_sources_of(category) ==
    IF category \in DOMAIN source_db THEN source_db[category] ELSE <<"General Web Search">>

AllSources == UNION {Range(source_db[c]) : c \in DOMAIN source_db} \cup {"General Web Search"}

\* the outcomes of random.choice over the rows of the file
SourceAssignments(rows) ==
    {a \in [1..Len(rows) -> AllSources] :
        \A i \in 1..Len(rows) : a[i] \in Range(cat_sources_of(rows[i].category))}

\* df after lines 63 and 96: source_citation and mentioned_brands added
Enrich(rows, assigned) ==
    [i \in 1..Len(rows) |->
        [idx |-> i, category |-> rows[i].category, country |-> rows[i].country,
         platform |-> rows[i].platform, date |-> rows[i].date,
         criteria |-> rows[i].criteria, response |-> rows[i].response,
         source_citation |-> assigned[i],
         mentioned_brands |->
             extract_brands_nlp(known_patterns, rows[i].response)]]

\* DataFrame.explode: one row per list element, all other columns copied;
\* an empty list gives one row holding NaN
ExplodeRow(row) ==
    IF row.mentioned_brands = <<>>
    THEN <<[row EXCEPT !.mentioned_brands = NaN]>>
    ELSE [j \in 1..Len(row.mentioned_brands) |->
             [row EXCEPT !.mentioned_brands = row.mentioned_brands[j]]]

RECURSIVE explode(_)
explode(table) ==
    IF table = <<>> THEN <<>> ELSE ExplodeRow(Head(table)) \o explode(Tail(table))

\* dropna(subset=['mentioned_brands'])
NotNaBrand(row) == row.mentioned_brands # NaN
dropna(table) == SelectSeq(table, NotNaBrand)

\* (line 97 without the dropna)
ExplodeKeepNa(table) == explode(table)

\* line 97
Explode(table) == dropna(explode(table))

(***************************************************************************)
(* Session state and the password gate.                                    *)
(***************************************************************************)
Secret == "s3cret"
Passwords == {"s3cret", "guess"}

NoKeys == [k \in {} |-> FALSE]
Put(f, k, v) == [x \in DOMAIN f \cup {k} |-> IF x = k THEN v ELSE f[x]]
Del(f, k) == [x \in DOMAIN f \ {k} |-> f[x]]
\* st.session_state.get("password_correct", False)
PasswordCorrect(f) == IF "password_correct" \in DOMAIN f THEN f["password_correct"] ELSE FALSE

Null == [none |-> TRUE]

InitRun ==
    /\ df = <<>>
    /\ df_exploded = <<>>
    /\ selected_category = ""
    /\ selected_country = ""
    /\ scope_df = <<>>
    /\ available_brands = <<>>
    /\ ranking = <<>>
    /\ target_brand = NaN
    /\ insight = Null
    /\ sov = Null
    /\ semantic = Null
    /\ sources = Null

ExIdle == [pc |-> "off", lexicon |-> <<>>, text |-> <<>>, patterns |-> <<>>, found |-> <<>>]

Init ==
    /\ session_state = NoKeys
    /\ pc = "start"
    /\ stop_reason = ""
    /\ cache = <<>>
    /\ InitRun
    /\ ex = ExIdle

\* st.stop()
Stop(reason) ==
    /\ pc' = "stopped"
    /\ stop_reason' = reason

\* the user submits the password input (line 36): the widget value is
\* stored under its key, then the on_change callback is called
submit_password ==
    /\ pc = "stopped"
    /\ stop_reason = "password"
    /\ \E typed \in Passwords : session_state' = Put(session_state, "password", typed)
    /\ pc' = "callback"
    /\ UNCHANGED <<stop_reason, cache, ex>>
    /\ UNCHANGED runVars

\* (lines 26-31 without the comparison)
password_entered_any ==
    /\ pc = "callback"
    /\ session_state' = Del(Put(session_state, "password_correct", TRUE), "password")
    /\ pc' = "start"
    /\ stop_reason' = ""
    /\ UNCHANGED <<cache, ex>>
    /\ UNCHANGED runVars

\* lines 26-31: password_entered; the script is rerun after it
password_entered ==
    /\ pc = "callback"
    /\ IF session_state["password"] = Secret
       THEN session_state' = Del(Put(session_state, "password_correct", TRUE), "password")
       ELSE session_state' = Put(session_state, "password_correct", FALSE)
    /\ pc' = "start"
    /\ stop_reason' = ""
    /\ UNCHANGED <<cache, ex>>
    /\ UNCHANGED runVars

\* any other interaction reruns the script from the top
Rerun ==
    /\ pc \in {"done", "stopped", "crashed"}
    /\ stop_reason # "password"
    /\ pc' = "start"
    /\ stop_reason' = ""
    /\ df' = <<>> /\ df_exploded' = <<>> /\ selected_category' = "" /\ selected_country' = ""
    /\ scope_df' = <<>> /\ available_brands' = <<>> /\ ranking' = <<>>
    /\ target_brand' = NaN
    /\ insight' = Null /\ sov' = Null /\ semantic' = Null /\ sources' = Null
    /\ UNCHANGED <<session_state, cache, ex>>

\* lines 25-40: check_password() and the st.stop() behind it
check_password ==
    /\ pc = "start"
    /\ IF PasswordCorrect(session_state)
       THEN pc' = "load" /\ UNCHANGED stop_reason
       ELSE Stop("password")
    /\ UNCHANGED <<session_state, cache, ex>>
    /\ UNCHANGED runVars

\* lines 43-101: load_and_enrich_data() behind @st.cache_data
load_and_enrich_data ==
    /\ pc = "load"
    /\ IF cache # <<>>
       THEN /\ df' = cache[1].df
            /\ df_exploded' = cache[1].df_exploded
            /\ pc' = "check_empty"
            /\ UNCHANGED <<cache, stop_reason>>
       ELSE \E file \in Files :
              IF ~file.ok
              THEN /\ Stop("load_error")
                   /\ UNCHANGED <<cache, df, df_exploded>>
              ELSE \E assigned \in SourceAssignments(file.rows) :
                     LET t == Enrich(file.rows, assigned)
                     IN /\ df' = t
                        /\ df_exploded' = Explode(t)
                        /\ cache' = <<[df |-> t, df_exploded |-> Explode(t)]>>
                        /\ pc' = "check_empty"
                        /\ UNCHANGED stop_reason
    /\ UNCHANGED <<session_state, selected_category, selected_country, scope_df,
                   available_brands, ranking, target_brand, insight, sov, semantic,
                   sources, ex>>

\* lines 103-105
check_exploded ==
    /\ pc = "check_empty"
    /\ IF df_exploded = <<>>
       THEN Stop("no_brands")
       ELSE pc' = "sidebar" /\ UNCHANGED stop_reason
    /\ UNCHANGED <<session_state, cache, ex>>
    /\ UNCHANGED runVars

(***************************************************************************)
(* Columns, filters and counts.                                            *)
(***************************************************************************)
\* table[field]: one column of a table
Col(table, field) == [i \in 1..Len(table) |-> table[i][field]]

\* (sort=False: the distinct values in order of first appearance)
value_counts_unsorted(col) == {Uniques(col)}

\* Series.value_counts(): the distinct values by descending count; the
\* order among equal counts is left open
value_counts(col) ==
    {p \in Perms(Range(col)) :
        \A i, j \in 1..Len(p) : i < j => Count(col, p[i]) >= Count(col, p[j])}

\* lines 115-117
ScopeFilter(table, category, country) ==
    LET InCategory(row) == row.category = category
        InCountry(row) == row.country = country
        byCategory == SelectSeq(table, InCategory)
    IN IF country # "All" THEN SelectSeq(byCategory, InCountry) ELSE byCategory

\* lines 108-120: the sidebar
sidebar ==
    /\ pc = "sidebar"
    /\ \E category \in Range(Col(df, "category")) :
          LET InCategory(row) == row.category = category
              avail_countries == Range(Col(SelectSeq(df, InCategory), "country"))
          IN \E country \in {"All"} \cup avail_countries :
                /\ selected_category' = category
                /\ selected_country' = country
                /\ scope_df' = ScopeFilter(df_exploded, category, country)
    /\ pc' = "brand_filter"
    /\ UNCHANGED <<session_state, stop_reason, cache, df, df_exploded, available_brands,
                   ranking, target_brand, insight, sov, semantic, sources, ex>>

BrandListSize == 50

\* (lines 125-130 without the else branch: an empty scope goes on, the
\* select box over no options returning None)
brand_filter_nostop ==
    /\ pc = "brand_filter"
    /\ \E counts \in value_counts(Col(scope_df, "mentioned_brands")) :
          /\ ranking' = counts
          /\ available_brands' = HeadN(counts, BrandListSize)
          /\ IF counts = <<>> THEN target_brand' = NaN
             ELSE \E b \in Range(HeadN(counts, BrandListSize)) : target_brand' = b
    /\ pc' = "tab_insight"
    /\ UNCHANGED <<session_state, stop_reason, cache, df, df_exploded, selected_category,
                   selected_country, scope_df, insight, sov, semantic, sources, ex>>

\* lines 125-130: the focus brand, or the stop on an empty scope
brand_filter ==
    /\ pc = "brand_filter"
    /\ IF scope_df # <<>>
       THEN \E counts \in value_counts(Col(scope_df, "mentioned_brands")) :
              /\ ranking' = counts
              /\ available_brands' = HeadN(counts, BrandListSize)
              /\ \E b \in Range(HeadN(counts, BrandListSize)) : target_brand' = b
              /\ pc' = "tab_insight"
              /\ UNCHANGED stop_reason
       ELSE /\ Stop("empty_scope")
            /\ UNCHANGED <<ranking, available_brands, target_brand>>
    /\ UNCHANGED <<session_state, cache, df, df_exploded, selected_category,
                   selected_country, scope_df, insight, sov, semantic, sources, ex>>

(***************************************************************************)
(* Floating-point values, kept exact: [n, d] with d > 0 is n/d; d = 0 is   *)
(* the result of a division by zero in a pandas column (inf when n # 0,    *)
(* NaN when n = 0).  A Python scalar division by zero raises instead.      *)
(***************************************************************************)
Frac(n, d) == [n |-> n, d |-> d]
Zero == Frac(0, 1)
Inf == Frac(1, 0)
NaNFloat == Frac(0, 0)
IsNaNFloat(x) == x.d = 0 /\ x.n = 0
IsInf(x) == x.d = 0 /\ x.n # 0
Defined(x) == x.d > 0

FLess(x, y) == x.n * y.d < y.n * x.d
FEq(x, y) == x.n * y.d = y.n * x.d
FTimes(x, k) == IF Defined(x) THEN Frac(x.n * k, x.d) ELSE x
FMinus(x, y) ==
    IF Defined(x) /\ Defined(y) THEN Frac(x.n * y.d - y.n * x.d, x.d * y.d) ELSE NaNFloat

\* x / y on numpy floats
FOver(x, y) ==
    IF IsNaNFloat(x) \/ IsNaNFloat(y) THEN NaNFloat
    ELSE IF IsInf(x) THEN (IF IsInf(y) THEN NaNFloat ELSE Inf)
    ELSE IF IsInf(y) THEN Zero
    ELSE IF y.n = 0 THEN (IF x.n = 0 THEN NaNFloat ELSE Inf)
    ELSE Frac(x.n * y.d, x.d * y.n)

\* a / b on two counts of a pandas column
PdDiv(a, b) == FOver(Frac(a, 1), Frac(b, 1))

\* Series.fillna(0)
fillna0(x) == IF IsNaNFloat(x) THEN Zero ELSE x

\* a Python scalar division: the value, or ZeroDivisionError raised
ZeroDivisionError == [error |-> "ZeroDivisionError"]
Raises(x) == "error" \in DOMAIN x
PyDiv(x, y) == IF Raises(x) THEN x ELSE IF Raises(y) THEN y
               ELSE IF y.n = 0 THEN ZeroDivisionError ELSE Frac(x.n * y.d, x.d * y.n)
PyTimes(x, k) == IF Raises(x) THEN x ELSE Frac(x.n * k, x.d)

(***************************************************************************)
(* Tab 1: AI visibility overview.                                          *)
(***************************************************************************)
BrandRows(table, brand) ==
    LET IsBrand(row) == row.mentioned_brands = brand
    IN SelectSeq(table, IsBrand)

\* (line 151 without the factor 100)
global_sov_fraction(brand_mentions, global_mentions) ==
    IF global_mentions > 0
    THEN PyDiv(Frac(brand_mentions, 1), Frac(global_mentions, 1))
    ELSE Zero

\* line 151
global_sov(brand_mentions, global_mentions) ==
    IF global_mentions > 0
    THEN PyTimes(PyDiv(Frac(brand_mentions, 1), Frac(global_mentions, 1)), 100)
    ELSE Zero

\* line 154
ind_avg_sov(num_brands) ==
    IF num_brands > 0 THEN PyDiv(Frac(100, 1), Frac(num_brands, 1)) ELSE Zero

\* line 156
visibility_ratio(gsov, avg) ==
    IF Raises(gsov) THEN gsov ELSE IF Raises(avg) THEN avg
    ELSE IF FLess(Zero, avg) THEN PyDiv(gsov, avg) ELSE Zero

\* lines 157-161
visibility(ratio) ==
    IF FLess(ratio, Frac(5, 10)) THEN "Low"
    ELSE IF FLess(ratio, Frac(8, 10)) THEN "Moderate"
    ELSE IF FLess(ratio, Frac(12, 10)) THEN "Average"
    ELSE IF FLess(ratio, Frac(20, 10)) THEN "Good"
    ELSE "Excellent"

\* (the last label instead of the first)
leader_of_last(counts) == counts[Len(counts)]

\* line 163: value_counts().index[0]
leader_of(counts) == counts[1]

\* groupby(keys).size(): the number of rows of every group that has rows
KeyOf(row, keys) == [j \in 1..Len(keys) |-> row[keys[j]]]
\* a date that is missing in the file: NaT after pd.to_datetime (line 47);
\* the dates of the file are 1, 2, ...
NaT == 0
\* groupby drops the rows whose key has a missing value (dropna=True)
IsNaKey(row, keys) == \E j \in 1..Len(keys) : keys[j] = "date" /\ row.date = NaT
GroupKeys(table, keys) ==
    {KeyOf(table[i], keys) : i \in {j \in 1..Len(table) : ~IsNaKey(table[j], keys)}}
GroupSize(table, keys) ==
    [k \in GroupKeys(table, keys) |->
        Cardinality({i \in 1..Len(table) : KeyOf(table[i], keys) = k})]

\* (the same over every combination of the two key columns, the way a
\* pivot or an outer merge would list them: combinations without rows get
\* total 0)
SovByGroupGrid(table, brand, keys) ==
    LET totals == GroupSize(table, keys)
        brand_t == GroupSize(BrandRows(table, brand), keys)
        grid == {<<a[1], b[2]>> : a \in DOMAIN totals, b \in DOMAIN totals}
    IN [k \in grid |->
           LET total == IF k \in DOMAIN totals THEN totals[k] ELSE 0
               brand_count == IF k \in DOMAIN brand_t THEN brand_t[k] ELSE 0
           IN [total |-> total, brand_count |-> brand_count,
               sov |-> FTimes(PdDiv(brand_count, total), 100)]]

\* pd.merge(totals, brand, how='left').fillna(0), then the sov column:
\* one row per group of totals
SovByGroup(table, brand, keys) ==
    LET totals == GroupSize(table, keys)
        brand_t == GroupSize(BrandRows(table, brand), keys)
    IN [k \in DOMAIN totals |->
           LET brand_count == IF k \in DOMAIN brand_t THEN brand_t[k] ELSE 0
           IN [total |-> totals[k], brand_count |-> brand_count,
               sov |-> FTimes(PdDiv(brand_count, totals[k]), 100)]]

DatePlatform == <<"date", "platform">>
DateCountry == <<"date", "country">>
CountryPlatform == <<"country", "platform">>

\* lines 195-200 and 219-224: no chart when the filtered table is empty
merged_sov(table, brand, keys) ==
    IF table # <<>> THEN [shown |-> TRUE, rows |-> SovByGroup(table, brand, keys)]
    ELSE [shown |-> FALSE, rows |-> <<>>]

\* lines 166-172: the share of the brand per criteria, its best and worst
crit_pct(table, brand) ==
    LET totals == GroupSize(table, <<"criteria">>)
        brand_t == GroupSize(BrandRows(table, brand), <<"criteria">>)
    IN [k \in DOMAIN totals |->
           FTimes(PdDiv(IF k \in DOMAIN brand_t THEN brand_t[k] ELSE 0, totals[k]), 100)]

top_strength(table, brand) ==
    LET pct == crit_pct(table, brand)
    IN IF DOMAIN pct # {} /\ brand \in Range(Col(table, "mentioned_brands"))
       THEN {k[1] : k \in {x \in DOMAIN pct : \A o \in DOMAIN pct : ~FLess(pct[x], pct[o])}}
       ELSE {"N/A"}

top_weakness(table, brand) ==
    LET pct == crit_pct(table, brand)
    IN IF DOMAIN pct # {} /\ brand \in Range(Col(table, "mentioned_brands"))
       THEN {k[1] : k \in {x \in DOMAIN pct : \A o \in DOMAIN pct : ~FLess(pct[o], pct[x])}}
       ELSE {"N/A"}

\* (lines 243-257 computed over every country and platform combination,
\* without the replace(0, 1))
hm_df_grid(table, brand) ==
    LET merged == SovByGroupGrid(table, brand, CountryPlatform)
        InCell(k) == LET In(row) == KeyOf(row, CountryPlatform) = k IN SelectSeq(table, In)
    IN [k \in DOMAIN merged |->
           LET unique_brands == Cardinality(Range(Col(InCell(k), "mentioned_brands")))
               ind_avg == PdDiv(100, unique_brands)
           IN [total |-> merged[k].total, brand_count |-> merged[k].brand_count,
               sov |-> merged[k].sov, unique_brands |-> unique_brands, ind_avg |-> ind_avg,
               index_vs_avg |-> fillna0(FTimes(FOver(merged[k].sov, ind_avg), 100))]]

\* (lines 243-257 with the share itself as the index, not divided by the
\* cell's baseline)
hm_df_share(table, brand) ==
    LET merged == SovByGroup(table, brand, CountryPlatform)
        InCell(k) == LET In(row) == KeyOf(row, CountryPlatform) = k IN SelectSeq(table, In)
    IN [k \in DOMAIN merged |->
           LET unique_brands == Cardinality(Range(Col(InCell(k), "mentioned_brands")))
               ind_avg == PdDiv(100, IF unique_brands = 0 THEN 1 ELSE unique_brands)
           IN [total |-> merged[k].total, brand_count |-> merged[k].brand_count,
               sov |-> merged[k].sov, unique_brands |-> unique_brands, ind_avg |-> ind_avg,
               index_vs_avg |-> fillna0(merged[k].sov)]]

\* lines 243-257: the heatmap cells
hm_df(table, brand) ==
    LET merged == SovByGroup(table, brand, CountryPlatform)
        InCell(k) == LET In(row) == KeyOf(row, CountryPlatform) = k IN SelectSeq(table, In)
    IN [k \in DOMAIN merged |->
           LET unique_brands == Cardinality(Range(Col(InCell(k), "mentioned_brands")))
               ind_avg == PdDiv(100, IF unique_brands = 0 THEN 1 ELSE unique_brands)
           IN [total |-> merged[k].total, brand_count |-> merged[k].brand_count,
               sov |-> merged[k].sov, unique_brands |-> unique_brands, ind_avg |-> ind_avg,
               index_vs_avg |-> fillna0(FTimes(FOver(merged[k].sov, ind_avg), 100))]]

\* line 257: pivot(index='country', columns='AI platform').fillna(0)
hm_pivot(cells) ==
    [c \in {k[1] : k \in DOMAIN cells}, p \in {k[2] : k \in DOMAIN cells} |->
        IF <<c, p>> \in DOMAIN cells THEN fillna0(cells[<<c, p>>].index_vs_avg) ELSE Zero]

\* the two multiselects (lines 192 and 216): every geography and every
\* platform is selected by default; a run has at most one of the two changed
FilterChoices(all_geos, all_plats) ==
    {[geos |-> g, plats |-> all_plats] : g \in SUBSET all_geos}
    \cup {[geos |-> all_geos, plats |-> q] : q \in SUBSET all_plats}

\* lines 143-271
tab_insight ==
    /\ pc = "tab_insight"
    /\ LET global_mentions == Len(scope_df)
           brand_mentions == Len(BrandRows(scope_df, target_brand))
           gsov == global_sov(brand_mentions, global_mentions)
           num_brands == Cardinality(Range(Col(scope_df, "mentioned_brands")))
           avg == ind_avg_sov(num_brands)
           ratio == visibility_ratio(gsov, avg)
           all_geos == Range(Col(scope_df, "country"))
           all_plats == Range(Col(scope_df, "platform"))
       IN IF Raises(gsov) \/ Raises(avg) \/ Raises(ratio) \/ ranking = <<>>
          THEN \* ZeroDivisionError, or IndexError at index[0]: the run ends
               /\ pc' = "crashed"
               /\ stop_reason' = "exception"
               /\ UNCHANGED insight
          ELSE \E selected \in FilterChoices(all_geos, all_plats) :
                 LET InGeos(row) == row.country \in selected.geos
                     InPlats(row) == row.platform \in selected.plats
                     cells == hm_df(scope_df, target_brand)
                 IN /\ insight' = [global_mentions |-> global_mentions,
                                   brand_mentions |-> brand_mentions,
                                   global_sov |-> gsov,
                                   num_brands |-> num_brands,
                                   ind_avg_sov |-> avg,
                                   ratio |-> ratio,
                                   visibility |-> visibility(ratio),
                                   leader |-> leader_of(ranking),
                                   top_strength |-> top_strength(scope_df, target_brand),
                                   top_weakness |-> top_weakness(scope_df, target_brand),
                                   l_merged |-> merged_sov(SelectSeq(scope_df, InGeos),
                                                           target_brand, DatePlatform),
                                   r_merged |-> merged_sov(SelectSeq(scope_df, InPlats),
                                                           target_brand, DateCountry),
                                   hm_df |-> cells,
                                   hm_pivot |-> hm_pivot(cells)]
                    /\ pc' = "tab_sov"
                    /\ UNCHANGED stop_reason
    /\ UNCHANGED <<session_state, cache, df, df_exploded, selected_category, selected_country,
                   scope_df, available_brands, ranking, target_brand, sov, semantic,
                   sources, ex>>

(***************************************************************************)
(* Tab 2: share of voice trends.                                           *)
(***************************************************************************)
TopN == 10

DateBrand == <<"date", "mentioned_brands">>
PlatformBrand == <<"platform", "mentioned_brands">>

\* lines 281-282: the share of every (date, brand) count in its date's total
daily_sov(daily_counts) ==
    [k \in DOMAIN daily_counts |->
        LET sameDate == {o \in DOMAIN daily_counts : o[1] = k[1]}
            RECURSIVE Sum(_)
            Sum(S) == IF S = {} THEN 0
                      ELSE LET o == CHOOSE x \in S : TRUE
                           IN daily_counts[o] + Sum(S \ {o})
        IN [count |-> daily_counts[k], daily_total |-> Sum(sameDate),
            sov_pct |-> FTimes(PdDiv(daily_counts[k], Sum(sameDate)), 100)]]

\* lines 284-285
top_10_with(counts, brand) ==
    LET top == HeadN(counts, TopN)
    IN IF brand \notin Range(top) THEN Append(top, brand) ELSE top

\* lines 278-307: the tables of the two charts; shown_time and shown_plat
\* tell which of the two charts is drawn
sov_charts(table, counts, brand) ==
    LET daily_counts == GroupSize(table, DateBrand)
        plat_counts == GroupSize(table, PlatformBrand)
        has_daily == DOMAIN daily_counts # {}
        top_10 == IF has_daily THEN top_10_with(counts, brand)
                  ELSE HeadN(counts, TopN)      \* line 305: 'top_10' not in locals()
        daily == daily_sov(daily_counts)
    IN [daily_counts |-> daily,
        top_10 |-> top_10,
        shown_time |-> has_daily,
        shown_plat |-> DOMAIN plat_counts # {},
        filtered_daily |->
            IF has_daily THEN {k \in DOMAIN daily : k[2] \in Range(top_10)} ELSE {},
        plat_filtered |->
            {k \in DOMAIN plat_counts : k[2] \in Range(top_10)}]

\* lines 274-314
tab_sov ==
    /\ pc = "tab_sov"
    /\ sov' = sov_charts(scope_df, ranking, target_brand)
    /\ pc' = "tab_semantic"
    /\ UNCHANGED <<session_state, stop_reason, cache, df, df_exploded, selected_category,
                   selected_country, scope_df, available_brands, ranking, target_brand,
                   insight, semantic, sources, ex>>

(***************************************************************************)
(* Tab 3: brand perception.  Only the selection of the responses is        *)
(* modelled; the word statistics drawn from them are presentation.         *)
(***************************************************************************)
\* df['response'].str.contains(target_brand, case=False, na=False): the
\* brand name is used as a regular expression, unescaped
str_contains(text, pat) == IF text = NaN THEN FALSE ELSE re_search(re_compile(pat), text)

\* lines 317-369
tab_semantic ==
    /\ pc = "tab_semantic"
    /\ LET Describes(row) == /\ row.category = selected_category
                             /\ str_contains(row.response, target_brand)
       IN semantic' = [brand_responses |-> Col(SelectSeq(df, Describes), "idx")]
    /\ pc' = "tab_sources"
    /\ UNCHANGED <<session_state, stop_reason, cache, df, df_exploded, selected_category,
                   selected_country, scope_df, available_brands, ranking, target_brand,
                   insight, sov, sources, ex>>

(***************************************************************************)
(* Tab 4: source intelligence.                                             *)
(***************************************************************************)
TopGaps == 3

\* value_counts(normalize=True): the proportion of every value present
proportions(col) ==
    [v \in Range(col) |-> PdDiv(Count(col, v), Len(col))]

\* cat_sources - brand_sources: aligned on the union of both indexes, NaN
\* where a label is missing on either side
series_minus(a, b) ==
    [v \in DOMAIN a \cup DOMAIN b |->
        IF v \in DOMAIN a /\ v \in DOMAIN b THEN FMinus(a[v], b[v]) ELSE NaNFloat]

\* Series.dropna()
series_dropna(a) == [v \in {x \in DOMAIN a : ~IsNaNFloat(a[x])} |-> a[v]]

\* sort_values(ascending=False): the labels by descending value; the order
\* among equal values is left open
sort_desc(a) ==
    {p \in Perms(DOMAIN a) : \A i, j \in 1..Len(p) : i < j => ~FLess(a[p[i]], a[p[j]])}

\* line 395
gap_series(cat_sources, brand_sources) == series_dropna(series_minus(cat_sources, brand_sources))

\* lines 372-403
tab_sources ==
    /\ pc = "tab_sources"
    /\ LET brand_source_df == BrandRows(scope_df, target_brand)
       IN IF brand_source_df # <<>>
          THEN LET cat_sources == proportions(Col(scope_df, "source_citation"))
                   brand_sources == proportions(Col(brand_source_df, "source_citation"))
                   diffs == gap_series(cat_sources, brand_sources)
               IN \E order \in sort_desc(diffs) :
                     LET gap == HeadN(order, TopGaps)
                     IN sources' =
                          [source_counts |-> GroupSize(brand_source_df, <<"source_citation">>),
                           cat_sources |-> cat_sources,
                           brand_sources |-> brand_sources,
                           gap |-> [i \in 1..Len(gap) |-> [source |-> gap[i], diff |-> diffs[gap[i]]]],
                           message |-> IF gap # <<>> THEN "under_represented"
                                       ELSE "matches_or_exceeds"]
          ELSE sources' = [message |-> "no_source_data"]
    /\ pc' = "done"
    /\ UNCHANGED <<session_state, stop_reason, cache, df, df_exploded, selected_category,
                   selected_country, scope_df, available_brands, ranking, target_brand,
                   insight, sov, semantic, ex>>

(***************************************************************************)
(* extract_brands_nlp on its own: any lexicon of up to MaxLexicon names    *)
(* and any text of up to MaxLen characters, or a missing response.         *)
(***************************************************************************)
ExAlphabet == {"a", "A", "."}
ExNames == { <<"a">>, <<"A">>, <<"a", "a">>, <<".">>, <<"a", ".">> }
ExTexts == SeqsUpTo(ExAlphabet, MaxLen) \cup {NaN}
ExLexicons == SeqsUpTo(ExNames, MaxLexicon)

InitExtract ==
    /\ session_state = NoKeys
    /\ pc = "start"
    /\ stop_reason = ""
    /\ cache = <<>>
    /\ InitRun
    /\ ex \in [pc : {"compile"}, lexicon : ExLexicons, text : ExTexts,
               patterns : {<<>>}, found : {<<>>}]

\* line 86
compile_patterns ==
    /\ ex.pc = "compile"
    /\ ex' = [ex EXCEPT !.patterns = brand_patterns(ex.lexicon), !.pc = "extract"]
    /\ UNCHANGED <<session_state, pc, stop_reason, cache>>
    /\ UNCHANGED runVars

\* lines 88-94
apply_extract ==
    /\ ex.pc = "extract"
    /\ ex' = [ex EXCEPT !.found = extract_brands_nlp(ex.patterns, ex.text), !.pc = "done"]
    /\ UNCHANGED <<session_state, pc, stop_reason, cache>>
    /\ UNCHANGED runVars

NextExtract ==
    \/ compile_patterns
    \/ apply_extract

SpecExtract == InitExtract /\ [][NextExtract]_vars

(***************************************************************************)
(* The heatmap cells on their own: any scope of up to MaxMentions mention  *)
(* rows over two countries, two platforms and the brands of the lexicon,   *)
(* and any focus brand of that scope.  groupby, size and nunique do not    *)
(* depend on the order of the rows, so a scope is listed in one order.     *)
(***************************************************************************)
MaxMentions == 5

HmCountries == <<"IN", "US">>
HmPlatforms == <<"ChatGPT", "Gemini">>
HmKinds == Len(HmCountries) * Len(HmPlatforms) * Len(known_brands)

\* one mention row: the columns the heatmap reads
HmRow(t) ==
    [country |-> HmCountries[((t - 1) \div (Len(HmPlatforms) * Len(known_brands))) + 1],
     platform |-> HmPlatforms[(((t - 1) \div Len(known_brands)) % Len(HmPlatforms)) + 1],
     mentioned_brands |-> known_brands[((t - 1) % Len(known_brands)) + 1]]

\* the non-decreasing sequences of up to n row kinds
RECURSIVE HmKindSeqs(_)
HmKindSeqs(n) ==
    IF n = 0 THEN {<<>>}
    ELSE LET shorter == HmKindSeqs(n - 1)
             longest == {x \in shorter : Len(x) = n - 1}
         IN shorter \cup
            UNION {{Append(s, t) : t \in {u \in 1..HmKinds : s = <<>> \/ s[Len(s)] <= u}} :
                   s \in longest}

HmScopes == {[i \in 1..Len(s) |-> HmRow(s[i])] : s \in HmKindSeqs(MaxMentions)}

\* the scope is not empty (lines 125-130) and the focus brand is one of its
\* brands (line 127)
InitHeatmap ==
    /\ session_state = NoKeys
    /\ pc = "start"
    /\ stop_reason = ""
    /\ cache = <<>>
    /\ InitRun
    /\ \E table \in HmScopes \ {<<>>} :
          \E brand \in Range(Col(table, "mentioned_brands")) :
             ex = [pc |-> "cells", table |-> table, brand |-> brand,
                   hm_df |-> <<>>, hm_pivot |-> <<>>]

\* lines 243-255
compute_hm_df ==
    /\ ex.pc = "cells"
    /\ ex' = [ex EXCEPT !.hm_df = hm_df(ex.table, ex.brand), !.pc = "pivot"]
    /\ UNCHANGED <<session_state, pc, stop_reason, cache>>
    /\ UNCHANGED runVars

\* line 257
compute_hm_pivot ==
    /\ ex.pc = "pivot"
    /\ ex' = [ex EXCEPT !.hm_pivot = hm_pivot(ex.hm_df), !.pc = "done"]
    /\ UNCHANGED <<session_state, pc, stop_reason, cache>>
    /\ UNCHANGED runVars

NextHeatmap ==
    \/ compute_hm_df
    \/ compute_hm_pivot

SpecHeatmap == InitHeatmap /\ [][NextHeatmap]_vars

(***************************************************************************)
(* The tables of the share-of-voice tab on their own: a scope of up to     *)
(* MaxBrands brands with 1 to MaxCount mentions each, its ranking, and     *)
(* any focus brand of the selectable list.  The ranking is built with the  *)
(* scope (the brands in descending count), so that no ordering has to be   *)
(* searched for among the permutations of the brands.                      *)
(***************************************************************************)
MaxBrands == 12
MaxCount == 2

TbNames == <<"a", "b", "c", "d", "e", "f", "g", "h", "i", "j", "k", "l", "m", "n">>
TbModes == {"dated", "undated", "mixed"}

\* the non-increasing sequences of up to n counts
RECURSIVE TbCountSeqs(_)
TbCountSeqs(n) ==
    IF n = 0 THEN {<<>>}
    ELSE LET shorter == TbCountSeqs(n - 1)
             longest == {x \in shorter : Len(x) = n - 1}
         IN shorter \cup
            UNION {{Append(s, c) : c \in {u \in 1..MaxCount : s = <<>> \/ s[Len(s)] >= u}} :
                   s \in longest}

\* the j-th mention of the i-th brand; a date is missing in every row of an
\* undated file and in the first mention of every brand of a mixed one
TbRow(i, j, mode) ==
    [date |-> IF mode = "undated" \/ (mode = "mixed" /\ j = 1) THEN NaT ELSE j,
     platform |-> HmPlatforms[(i % Len(HmPlatforms)) + 1],
     mentioned_brands |-> <<TbNames[i]>>]

RECURSIVE TbTable(_, _, _)
TbTable(counts, mode, i) ==
    IF i = 0 THEN <<>>
    ELSE TbTable(counts, mode, i - 1) \o [j \in 1..counts[i] |-> TbRow(i, j, mode)]

\* value_counts of the table (line 126): the brands by descending count
TbRanking(counts) == [i \in 1..Len(counts) |-> <<TbNames[i]>>]

\* the scope is not empty and the focus brand is one of the selectable
\* brands (lines 125-130)
InitTopBrands ==
    /\ session_state = NoKeys
    /\ pc = "start"
    /\ stop_reason = ""
    /\ cache = <<>>
    /\ InitRun
    /\ \E counts \in TbCountSeqs(MaxBrands) \ {<<>>} :
          \E mode \in TbModes :
             \E brand \in Range(HeadN(TbRanking(counts), BrandListSize)) :
                ex = [pc |-> "charts", table |-> TbTable(counts, mode, Len(counts)),
                      ranking |-> TbRanking(counts), brand |-> brand, sov |-> <<>>]

\* lines 278-307
apply_sov_charts ==
    /\ ex.pc = "charts"
    /\ ex' = [ex EXCEPT !.sov = sov_charts(ex.table, ex.ranking, ex.brand), !.pc = "done"]
    /\ UNCHANGED <<session_state, pc, stop_reason, cache>>
    /\ UNCHANGED runVars

NextTopBrands == apply_sov_charts

SpecTopBrands == InitTopBrands /\ [][NextTopBrands]_vars

Next ==
    \/ submit_password
    \/ password_entered
    \/ Rerun
    \/ check_password
    \/ load_and_enrich_data
    \/ check_exploded
    \/ sidebar
    \/ brand_filter
    \/ tab_insight
    \/ tab_sov
    \/ tab_semantic
    \/ tab_sources

Spec == Init /\ [][Next]_vars

(***************************************************************************)
(* Properties.                                                             *)
(***************************************************************************)
FirstIndex(s, v) == CHOOSE i \in 1..Len(s) : s[i] = v /\ \A j \in 1..(i - 1) : s[j] # v

\* name occurs in text as a literal substring, ignoring case
Occurs(name, text) ==
    \E off \in 0..(Len(text) - Len(name)) :
        \A k \in 1..Len(name) : Lower(name[k]) = Lower(text[off + k])

Offsets(name, text) ==
    {off \in 0..(Len(text) - Len(name)) :
        \A k \in 1..Len(name) : Lower(name[k]) = Lower(text[off + k])}

Extracted(row) == extract_brands_nlp(known_patterns, row.response)

RECURSIVE SumExtracted(_)
SumExtracted(table) ==
    IF table = <<>> THEN 0 ELSE Len(Extracted(Head(table))) + SumExtracted(Tail(table))

\* C1: expansion conservation.  When load_and_enrich_data has returned,
\* df_exploded has as many rows as the extractor returns brands over all
\* rows of df; a row of df with no brand has no row in df_exploded and is
\* still in df; every expanded row equals its parent row in all fields but
\* the brand, which is one of the parent's extracted brands.
C1_ExpansionConservation ==
    pc = "check_empty" =>
        /\ Len(df_exploded) = SumExtracted(df)
        /\ \A i \in 1..Len(df) :
              /\ df[i].idx = i
              /\ Cardinality({j \in 1..Len(df_exploded) : df_exploded[j].idx = i})
                    = Len(Extracted(df[i]))
        /\ \A j \in 1..Len(df_exploded) :
              LET e == df_exploded[j]
              IN /\ e.idx \in 1..Len(df)
                 /\ e.mentioned_brands \in Range(Extracted(df[e.idx]))
                 /\ [e EXCEPT !.mentioned_brands = df[e.idx].mentioned_brands] = df[e.idx]

\* a loaded dataset with a row that mentions no brand and a row that
\* mentions two
C1_Witness ==
    /\ pc = "check_empty"
    /\ \E i, k \in 1..Len(df) : Extracted(df[i]) = <<>> /\ Len(Extracted(df[k])) = 2
    /\ Len(df_exploded) = 2

\* C2: lexicon extraction.  The list extract_brands_nlp returns holds exactly
\* the names of the lexicon that occur in str(text) as a literal substring,
\* ignoring case; no name twice; in the order of the names' first places in
\* the lexicon.  (No match gives the empty list.)
C2_LexiconExtraction ==
    ex.pc = "done" =>
        LET found == ex.found
            text_str == str(ex.text)
        IN /\ \A i \in 1..Len(found) :
                 found[i] \in Range(ex.lexicon) /\ Occurs(found[i], text_str)
           /\ \A b \in Range(ex.lexicon) : Occurs(b, text_str) => b \in Range(found)
           /\ \A i, j \in 1..Len(found) :
                 i < j => /\ found[i] # found[j]
                          /\ FirstIndex(ex.lexicon, found[i]) < FirstIndex(ex.lexicon, found[j])

\* a name listed twice in the lexicon and occurring at two places of the
\* text is returned once, next to a name that does not occur
C2_Witness ==
    /\ ex.pc = "done"
    /\ Len(ex.lexicon) = 2
    /\ ex.lexicon[1] = ex.lexicon[2]
    /\ Cardinality(Offsets(ex.lexicon[1], str(ex.text))) >= 2
    /\ ex.found = <<ex.lexicon[1]>>

Brands(M) == Range(Col(M, "mentioned_brands"))
brandMentions(M, b) == Len(BrandRows(M, b))
shareOfVoice(M, b) == global_sov(brandMentions(M, b), Len(M))
Pos(s, v) == CHOOSE i \in 1..Len(s) : s[i] = v

FPlus(x, y) == Frac(x.n * y.d + y.n * x.d, x.d * y.d)

RECURSIVE SumShares(_, _)
SumShares(M, S) ==
    IF S = {} THEN Zero
    ELSE LET b == CHOOSE x \in S : TRUE
         IN FPlus(shareOfVoice(M, b), SumShares(M, S \ {b}))

RECURSIVE SumMentions(_, _)
SumMentions(M, S) ==
    IF S = {} THEN 0
    ELSE LET b == CHOOSE x \in S : TRUE
         IN brandMentions(M, b) + SumMentions(M, S \ {b})

\* C3: share normalization.  When the overview of a non-empty scope has
\* been computed, the mention counts of the brands present sum to
\* len(scope_df), their shares sum to 100, every share lies between 0 and
\* 100, and the share shown is the focal brand's.
C3_ShareNormalization ==
    (pc = "tab_sov" /\ insight # Null /\ scope_df # <<>>) =>
        /\ insight.global_mentions = Len(scope_df)
        /\ SumMentions(scope_df, Brands(scope_df)) = Len(scope_df)
        /\ FEq(SumShares(scope_df, Brands(scope_df)), Frac(100, 1))
        /\ \A b \in Brands(scope_df) :
              /\ Defined(shareOfVoice(scope_df, b))
              /\ ~FLess(shareOfVoice(scope_df, b), Zero)
              /\ ~FLess(Frac(100, 1), shareOfVoice(scope_df, b))
        /\ insight.global_sov = shareOfVoice(scope_df, target_brand)

\* a scope of three brands with unequal shares
C3_Witness ==
    /\ pc = "tab_sov"
    /\ insight # Null
    /\ Cardinality(Brands(scope_df)) = 3
    /\ \E a, b \in Brands(scope_df) : FLess(shareOfVoice(scope_df, a), shareOfVoice(scope_df, b))
    /\ FLess(insight.global_sov, Frac(50, 1))

HasGaps == sources # Null /\ sources.message # "no_source_data"

\* C4: gap sign convention.  A source whose proportion among the focal
\* brand's mentions exceeds its proportion among all mentions of the scope
\* is not in the list of under-represented sources.
C4_GapSignConvention ==
    HasGaps =>
        \A i \in 1..Len(sources.gap) :
            LET s == sources.gap[i].source
            IN ~(s \in DOMAIN sources.brand_sources
                 /\ FLess(sources.cat_sources[s], sources.brand_sources[s]))

\* C5: a source of the scope that none of the focal brand's mentions cites
\* counts with brand proportion 0: it is listed with a gap equal to its
\* category proportion, unless TopGaps sources with gaps at least as large
\* fill the list.
C5_AbsentSourceFullGap ==
    HasGaps =>
        \A s \in DOMAIN sources.cat_sources \ DOMAIN sources.brand_sources :
            \/ \E i \in 1..Len(sources.gap) :
                  /\ sources.gap[i].source = s
                  /\ FEq(sources.gap[i].diff, sources.cat_sources[s])
            \/ /\ Len(sources.gap) = TopGaps
               /\ \A i \in 1..Len(sources.gap) :
                     ~FLess(sources.gap[i].diff, sources.cat_sources[s])

ScopeSelected == selected_category # ""

\* C6 as stated: a run whose scope selects no mention row does not stop.
C6_EmptyScopeNeverHalts ==
    (ScopeSelected /\ scope_df = <<>>) => pc # "stopped"

\* C6, amended: a run whose scope selects no mention row stops at the brand
\* filter (with the "No data" warning) before any aggregation is computed;
\* the run stops for that reason only when the scope is empty although the
\* expanded table is not, and no tab ever works on an empty scope.
C6_EmptyScopeStops ==
    /\ (ScopeSelected /\ scope_df = <<>>) =>
          /\ pc \in {"brand_filter", "stopped"}
          /\ pc = "stopped" => stop_reason = "empty_scope"
          /\ ranking = <<>> /\ target_brand = NaN
          /\ insight = Null /\ sov = Null /\ semantic = Null /\ sources = Null
    /\ stop_reason = "empty_scope" =>
          /\ pc = "stopped" /\ ScopeSelected /\ scope_df = <<>> /\ df_exploded # <<>>

\* a run stopped on an empty scope of a dataset that has mentions elsewhere
C6_Witness ==
    /\ pc = "stopped"
    /\ stop_reason = "empty_scope"
    /\ selected_country # "All"
    /\ df_exploded # <<>>

Downstream ==
    \/ pc \in {"brand_filter", "tab_insight", "tab_sov", "tab_semantic", "tab_sources", "done"}
    \/ ScopeSelected
    \/ scope_df # <<>>
    \/ ranking # <<>>
    \/ insight # Null \/ sov # Null \/ semantic # Null \/ sources # Null

GatePassed ==
    /\ PasswordCorrect(session_state)
    /\ cache # <<>>
    /\ df = cache[1].df
    /\ df_exploded = cache[1].df_exploded
    /\ df_exploded # <<>>

C7_Order ==
    /\ Downstream => GatePassed
    /\ pc \in {"load", "check_empty", "sidebar"} => PasswordCorrect(session_state)
    /\ pc = "sidebar" => GatePassed
    /\ stop_reason \in {"password", "load_error", "no_brands"} => ~Downstream
    /\ stop_reason = "password" => ~PasswordCorrect(session_state)
    /\ stop_reason = "load_error" => cache = <<>>
    /\ stop_reason = "no_brands" => df_exploded = <<>>

C7_PasswordStep ==
    (~PasswordCorrect(session_state) /\ PasswordCorrect(session_state')) =>
        (pc = "callback" /\ session_state["password"] = Secret)

\* C7: gating order.  Scope filtering and the metrics are reached only with
\* password_correct true, the dataset loaded without error and a non-empty
\* expanded table; a run stopped at the gate, on a load error or on an
\* empty extraction has computed nothing downstream; password_correct turns
\* true only in the callback of a submission equal to the secret.
C7_GatingOrder == [] C7_Order /\ [][C7_PasswordStep]_vars

\* a complete run
C7_Witness ==
    /\ pc = "done"
    /\ GatePassed
    /\ sources # Null

AllDefined(groups) ==
    \A k \in DOMAIN groups : groups[k].total > 0 /\ Defined(groups[k].sov)

\* C8: zero-division safety.  No run ends in an exception; every ratio the
\* tabs computed is a defined number and every grouped row has a total
\* above 0; the guarded scalars are 0 on an empty scope (share), a zero
\* brand count (baseline) and a zero baseline (ratio).
C8_ZeroDivisionSafety ==
    /\ pc # "crashed"
    /\ global_sov(0, 0) = Zero
    /\ ind_avg_sov(0) = Zero
    /\ visibility_ratio(Zero, Zero) = Zero
    /\ insight # Null =>
          /\ Defined(insight.global_sov)
          /\ Defined(insight.ind_avg_sov)
          /\ Defined(insight.ratio)
          /\ insight.l_merged.shown => AllDefined(insight.l_merged.rows)
          /\ insight.r_merged.shown => AllDefined(insight.r_merged.rows)
          /\ AllDefined(insight.hm_df)
          /\ \A k \in DOMAIN insight.hm_df :
                /\ insight.hm_df[k].unique_brands > 0
                /\ Defined(insight.hm_df[k].ind_avg)
                /\ Defined(insight.hm_df[k].index_vs_avg)
          /\ \A c \in DOMAIN insight.hm_pivot : Defined(insight.hm_pivot[c])
    /\ sov # Null =>
          \A k \in DOMAIN sov.daily_counts :
              /\ sov.daily_counts[k].daily_total > 0
              /\ Defined(sov.daily_counts[k].sov_pct)

\* both tabs done on a scope where a (date, platform) group and a heatmap
\* cell have no mention of the focal brand
C8_Witness ==
    /\ sov # Null
    /\ insight.l_merged.shown
    /\ \E k \in DOMAIN insight.l_merged.rows : insight.l_merged.rows[k].brand_count = 0
    /\ \E k \in DOMAIN insight.hm_df : FEq(insight.hm_df[k].index_vs_avg, Zero)
    /\ \E c \in DOMAIN insight.hm_pivot : c \notin DOMAIN insight.hm_df

\* C9: rank monotonicity.  When the focus brand list and the overview have
\* been computed, the ranking of the scope lists every brand of the scope
\* once; a brand with more mentions stands before a brand with fewer, in the
\* ranking and in the selectable list cut from it; the first brand, the
\* category leader, has a count no smaller than any other's.
C9_RankMonotonicity ==
    (pc \in {"tab_insight", "tab_sov"} /\ ranking # <<>>) =>
        LET col == Col(scope_df, "mentioned_brands")
        IN /\ Range(ranking) = Range(col)
           /\ Len(ranking) = Cardinality(Range(col))
           /\ available_brands = HeadN(ranking, BrandListSize)
           /\ \A a, b \in Range(col) :
                 Count(col, a) > Count(col, b) =>
                     /\ Pos(ranking, a) < Pos(ranking, b)
                     /\ b \in Range(available_brands) =>
                           /\ a \in Range(available_brands)
                           /\ Pos(available_brands, a) < Pos(available_brands, b)
           /\ \A b \in Range(col) : Count(col, ranking[1]) >= Count(col, b)
           /\ insight # Null => \A b \in Range(col) : Count(col, insight.leader) >= Count(col, b)

\* a ranking that differs from the order of first appearance
C9_Witness ==
    /\ pc = "tab_sov"
    /\ insight # Null
    /\ Len(ranking) = 3
    /\ ranking # Uniques(Col(scope_df, "mentioned_brands"))
    /\ Count(Col(scope_df, "mentioned_brands"), ranking[1]) > Count(Col(scope_df, "mentioned_brands"), ranking[2])

\* C10 as stated: the brand shown next to the focal brand is the
\* highest-count brand other than the focal brand, never the focal brand.
C10_TopCompetitorExcludesFocal ==
    insight # Null =>
        /\ insight.leader # target_brand
        /\ \A b \in Brands(scope_df) \ {target_brand} :
              brandMentions(scope_df, insight.leader) >= brandMentions(scope_df, b)

\* C10, amended: when the overview has been computed, the brand shown next
\* to the focal brand is the category
\* leader, the first brand of the ranking with the focal brand included: a
\* brand of the scope (never "none") whose count no brand exceeds, and the
\* focal brand itself whenever the focal brand has more mentions than every
\* other brand.
C10_CategoryLeader ==
    (pc = "tab_sov" /\ insight # Null) =>
        /\ insight.leader = ranking[1]
        /\ insight.leader \in Brands(scope_df)
        /\ \A b \in Brands(scope_df) :
              brandMentions(scope_df, insight.leader) >= brandMentions(scope_df, b)
        /\ (\A b \in Brands(scope_df) \ {target_brand} :
               brandMentions(scope_df, target_brand) > brandMentions(scope_df, b))
              => insight.leader = target_brand

\* the focal brand is the leader, ahead of another brand
C10_Witness ==
    /\ pc = "tab_sov"
    /\ insight # Null
    /\ insight.leader = target_brand
    /\ \E b \in Brands(scope_df) :
          brandMentions(scope_df, b) < brandMentions(scope_df, target_brand)

\* the mention rows of one (country, platform) cell of a scope
CellRows(M, country, platform) ==
    LET InCell(row) == row.country = country /\ row.platform = platform
    IN SelectSeq(M, InCell)

Countries(M) == Range(Col(M, "country"))
Platforms(M) == Range(Col(M, "platform"))

C12_TopNForcedInclusion ==
    ex.pc = "done" =>
        LET used == Range(ex.sov.top_10)
            expected == Range(HeadN(ex.ranking, TopN)) \cup {ex.brand}
            daily == GroupKeys(ex.table, DateBrand)
            plat == GroupKeys(ex.table, PlatformBrand)
        IN (ex.sov.shown_time \/ ex.sov.shown_plat) =>
              /\ used = expected
              /\ ex.brand \in used
              /\ Cardinality(used) <= TopN + 1
              /\ ex.sov.shown_time =>
                    ex.sov.filtered_daily = {k \in daily : k[2] \in expected}
              /\ ex.sov.shown_plat =>
                    ex.sov.plat_filtered = {k \in plat : k[2] \in expected}

====
